---- MODULE Spec2Model ----
(***************************************************************************)
(* SmartTable (fltk-table, src/src/lib.rs): a grid of strings with row and *)
(* column header lists, each behind its own Arc<Mutex<..>>, shared between *)
(* the public API (called from any thread holding a clone of the table)    *)
(* and the toolkit callbacks that run on the UI thread (draw_cell, the     *)
(* overlay input's commit callback and key handler, the table's event      *)
(* handler).                                                               *)
(*                                                                         *)
(* A call of the API by a thread is two steps: the try_lock() that opens   *)
(* it, and the rest of the call, which runs with the guard held and ends   *)
(* by dropping it.  A panic ends the calling thread; a guard dropped by a  *)
(* panicking thread poisons its mutex.  A panic inside a toolkit callback  *)
(* ends that callback only (the toolkit's shims catch the unwind).         *)
(***************************************************************************)
EXTENDS Integers, Sequences, FiniteSets, TLC

\* ---------------------------------------------------------------- bounds
\* The grid never grows beyond MaxRows x MaxCols: the callers stop inserting.
MaxRows == 2
MaxCols == 1
\* A worker thread makes at most MaxCalls calls while the UI thread runs.
MaxCalls == 1
\* The widest table whose generated column labels are read: the indices reach
\* past the last two-letter label.
MaxLabelCols == 703

\* ---------------------------------------------------------------- values
Workers == {"w1", "w2"}
UI == "ui"
NoOwner == "none"

\* Cell text written by callers and typed by the user; "" is String::new().
Vals == {"a"}
Texts == Vals \cup {""}
\* A header label handed to an insert/append/set-header call.
Labels == {"h"}

Locks == {"data", "rh", "ch"}

RowIdx == 0..MaxRows
ColIdx == 0..MaxCols

VARIABLES
    data,         \* StringMatrix behind SmartTable.data
    row_headers,  \* Vec<String> behind SmartTable.row_headers
    col_headers,  \* Vec<String> behind SmartTable.col_headers
    table_rows,   \* the toolkit table's rows()
    table_cols,   \* the toolkit table's cols()
    lock,         \* owner of each mutex, NoOwner when free
    poisoned,     \* the mutexes whose guard was dropped by a panic
    pc,           \* per worker: "idle", "locked" (inside a call), "dead"
    op,           \* per worker: the call in progress
    calls,        \* per worker: the calls it has begun beside the running UI
    last,         \* per worker: how its most recent call ended (NoCall inside one)
    opts,         \* the TableOpts given to with_opts: rows, cols, editable
    uipc,         \* UI thread: "idle", "req", "drawing", "waiting"
    req,          \* the paint request being served
    drawn,        \* the text the paint callback is drawing, <<>> when none
    cell,         \* CellData, the selection record
    sel,          \* the toolkit's selected cell, <<>> when none
    inp,          \* the overlay input: exists, visible, value, rect
    redraw,       \* a redraw of the table has been requested
    uilast        \* how the most recent UI callback ended (NoCallback inside one)

store == <<data, row_headers, col_headers, table_rows, table_cols>>
sync == <<lock, poisoned>>
callers == <<pc, op, last>>
ui == <<uipc, req, drawn, cell, sel, inp, redraw, uilast>>
vars == <<store, sync, callers, calls, opts, ui>>

\* TableOpts.editable.
editable == opts.editable

\* ---------------------------------------------------------------- Vec
\* Vec::insert(i, x), 0-based; the caller checks i <= len.
InsertAt(s, i, x) == SubSeq(s, 1, i) \o <<x>> \o SubSeq(s, i + 1, Len(s))
\* Vec::remove(i), 0-based; the caller checks i < len.
RemoveAt(s, i) == SubSeq(s, 1, i) \o SubSeq(s, i + 2, Len(s))
\* vec resized to n copies of x.
Fill(n, x) == [k \in 1..n |-> x]
\* data[row][col] exists.
InGrid(d, row, col) == row < Len(d) /\ col < Len(d[row + 1])
\* The first of the rows (1-based) in the set bad, 0 when there is none.
FirstBad(bad) ==
    IF bad = {} THEN 0 ELSE CHOOSE k \in bad : \A j \in bad : k <= j

SeqsUpTo(S, n) == UNION {[1..k -> S] : k \in 0..n}

\* ---------------------------------------------------------------- Mutex
\* Mutex::try_lock: Err(WouldBlock) when held, Err(Poisoned) when poisoned.
TryLockErr(l) ==
    IF lock[l] # NoOwner THEN "WouldBlock"
    ELSE IF l \in poisoned THEN "Poisoned"
    ELSE "none"

\* ---------------------------------------------------------------- outcomes
\* How the rest of a call ends: the store it leaves, the mutexes it poisons.
Done(d, rh, ch, r, c, ret) ==
    [err |-> "none", data |-> d, rh |-> rh, ch |-> ch, rows |-> r, cols |-> c,
     poison |-> {}, ret |-> ret]
\* A panic whose dropped guards leave their mutexes usable (no poisoning).
PanicUnpoisoned(e, d, rh, ch, p) ==
    [err |-> e, data |-> d, rh |-> rh, ch |-> ch, rows |-> table_rows,
     cols |-> table_cols, poison |-> {}, ret |-> <<>>]
Panic(e, d, rh, ch, p) ==
    [err |-> e, data |-> d, rh |-> rh, ch |-> ch, rows |-> table_rows,
     cols |-> table_cols, poison |-> p, ret |-> <<>>]

\* ---------------------------------------------------------------- cells
\* set_cell_value with the two indices exchanged.
set_cell_value_swapped(row, col, val) ==
    IF ~InGrid(data, col, row)
    THEN Panic("IndexOutOfBounds", data, row_headers, col_headers, {"data"})
    ELSE Done([data EXCEPT ![col + 1][row + 1] = val], row_headers, col_headers,
              table_rows, table_cols, <<>>)

set_cell_value(row, col, val) ==
    IF ~InGrid(data, row, col)
    THEN Panic("IndexOutOfBounds", data, row_headers, col_headers, {"data"})
    ELSE Done([data EXCEPT ![row + 1][col + 1] = val], row_headers, col_headers,
              table_rows, table_cols, <<>>)

\* cell_value answering the empty text for a cell that does not exist.
cell_value_or_empty(row, col) ==
    Done(data, row_headers, col_headers, table_rows, table_cols,
         <<IF InGrid(data, row, col) THEN data[row + 1][col + 1] ELSE "">>)

cell_value(row, col) ==
    IF ~InGrid(data, row, col)
    THEN Panic("IndexOutOfBounds", data, row_headers, col_headers, {"data"})
    ELSE Done(data, row_headers, col_headers, table_rows, table_cols,
              <<data[row + 1][col + 1]>>)

\* clear emptying the matrix itself (Vec::clear) instead of its cells.
clear_matrix ==
    Done(<<>>, row_headers, col_headers, table_rows, table_cols, <<>>)

clear ==
    Done([k \in 1..Len(data) |-> [j \in 1..Len(data[k]) |-> ""]],
         row_headers, col_headers, table_rows, table_cols, <<>>)

row_count == table_rows
column_count == table_cols

\* ---------------------------------------------------------------- headers
set_row_header_value(row, val) ==
    IF row >= Len(row_headers)
    THEN Panic("IndexOutOfBounds", data, row_headers, col_headers, {"rh"})
    ELSE Done(data, [row_headers EXCEPT ![row + 1] = val], col_headers,
              table_rows, table_cols, <<>>)

set_col_header_value(col, val) ==
    IF col >= Len(col_headers)
    THEN Panic("IndexOutOfBounds", data, row_headers, col_headers, {"ch"})
    ELSE Done(data, row_headers, [col_headers EXCEPT ![col + 1] = val],
              table_rows, table_cols, <<>>)

row_header_value(row) ==
    IF row >= Len(row_headers)
    THEN Panic("IndexOutOfBounds", data, row_headers, col_headers, {"rh"})
    ELSE Done(data, row_headers, col_headers, table_rows, table_cols,
              <<row_headers[row + 1]>>)

col_header_value(col) ==
    IF col >= Len(col_headers)
    THEN Panic("IndexOutOfBounds", data, row_headers, col_headers, {"ch"})
    ELSE Done(data, row_headers, col_headers, table_rows, table_cols,
              <<col_headers[col + 1]>>)

\* ---------------------------------------------------------------- rows
insert_empty_row(row, row_header) ==
    IF row > Len(data)
    THEN Panic("IndexOutOfBounds", data, row_headers, col_headers, {"data"})
    ELSE LET d == InsertAt(data, row, Fill(column_count, "")) IN
         IF TryLockErr("rh") # "none"
         THEN Panic(TryLockErr("rh"), d, row_headers, col_headers, {"data"})
         ELSE IF row > Len(row_headers)
         THEN Panic("IndexOutOfBounds", d, row_headers, col_headers, {"data", "rh"})
         ELSE Done(d, InsertAt(row_headers, row, row_header), col_headers,
                   table_rows + 1, table_cols, <<>>)

\* insert_row without its assert!.
insert_row_unchecked(row, row_header, vals) ==
    IF row > Len(data)
    THEN Panic("IndexOutOfBounds", data, row_headers, col_headers, {"data"})
    ELSE LET d == InsertAt(data, row, vals) IN
         IF TryLockErr("rh") # "none"
         THEN Panic(TryLockErr("rh"), d, row_headers, col_headers, {"data"})
         ELSE Done(d, Append(row_headers, row_header), col_headers,
                   table_rows + 1, table_cols, <<>>)

insert_row(row, row_header, vals) ==
    IF column_count # Len(vals)
    THEN Panic("AssertFailed", data, row_headers, col_headers, {"data"})
    ELSE IF row > Len(data)
    THEN Panic("IndexOutOfBounds", data, row_headers, col_headers, {"data"})
    ELSE LET d == InsertAt(data, row, vals) IN
         IF TryLockErr("rh") # "none"
         THEN Panic(TryLockErr("rh"), d, row_headers, col_headers, {"data"})
         ELSE Done(d, Append(row_headers, row_header), col_headers,
                   table_rows + 1, table_cols, <<>>)

\* append_empty_row without the resize of the new row.
append_empty_row_unsized(row_header) ==
    LET d == Append(data, <<>>) IN
    IF TryLockErr("rh") # "none"
    THEN Panic(TryLockErr("rh"), d, row_headers, col_headers, {"data"})
    ELSE Done(d, Append(row_headers, row_header), col_headers,
              table_rows + 1, table_cols, <<>>)

append_empty_row(row_header) ==
    LET d == Append(data, Fill(column_count, "")) IN
    IF TryLockErr("rh") # "none"
    THEN Panic(TryLockErr("rh"), d, row_headers, col_headers, {"data"})
    ELSE Done(d, Append(row_headers, row_header), col_headers,
              table_rows + 1, table_cols, <<>>)

append_row(row_header, vals) ==
    IF column_count # Len(vals)
    THEN Panic("AssertFailed", data, row_headers, col_headers, {"data"})
    ELSE LET d == Append(data, vals) IN
         IF TryLockErr("rh") # "none"
         THEN Panic(TryLockErr("rh"), d, row_headers, col_headers, {"data"})
         ELSE Done(d, Append(row_headers, row_header), col_headers,
                   table_rows + 1, table_cols, <<>>)

\* remove_row that leaves the header list alone.
remove_row_data_only(row) ==
    IF row >= Len(data)
    THEN Panic("IndexOutOfBounds", data, row_headers, col_headers, {"data"})
    ELSE Done(RemoveAt(data, row), row_headers, col_headers,
              table_rows - 1, table_cols, <<>>)

remove_row(row) ==
    IF row >= Len(data)
    THEN Panic("IndexOutOfBounds", data, row_headers, col_headers, {"data"})
    ELSE LET d == RemoveAt(data, row) IN
         IF TryLockErr("rh") # "none"
         THEN Panic(TryLockErr("rh"), d, row_headers, col_headers, {"data"})
         ELSE IF row >= Len(row_headers)
         THEN Panic("IndexOutOfBounds", d, row_headers, col_headers, {"data", "rh"})
         ELSE Done(d, RemoveAt(row_headers, row), col_headers,
                   table_rows - 1, table_cols, <<>>)

\* ---------------------------------------------------------------- columns
\* In the column calls `for v in data.iter_mut()` changes the rows one by one: a
\* panic at row `bad` leaves the rows before it changed, upd(bad - 1).
insert_empty_col(col, col_header) ==
    LET bad == FirstBad({k \in 1..Len(data) : col > Len(data[k])})
        upd(n) == [k \in 1..Len(data) |->
                      IF k <= n THEN InsertAt(data[k], col, "") ELSE data[k]]
    IN  IF bad # 0
        THEN Panic("IndexOutOfBounds", upd(bad - 1), row_headers,
                   col_headers, {"data"})
        ELSE LET d == upd(Len(data)) IN
             IF TryLockErr("ch") # "none"
             THEN Panic(TryLockErr("ch"), d, row_headers, col_headers, {"data"})
             ELSE IF col > Len(col_headers)
             THEN Panic("IndexOutOfBounds", d, row_headers, col_headers,
                        {"data", "ch"})
             ELSE Done(d, row_headers, InsertAt(col_headers, col, col_header),
                       table_rows, table_cols + 1, <<>>)

insert_col(col, col_header, vals) ==
    IF Len(vals) # row_count
    THEN Panic("AssertFailed", data, row_headers, col_headers, {"data"})
    ELSE LET bad == FirstBad({k \in 1..Len(data) :
                                  k > Len(vals) \/ col > Len(data[k])})
             upd(n) == [k \in 1..Len(data) |->
                           IF k <= n THEN InsertAt(data[k], col, vals[k])
                           ELSE data[k]]
         IN  IF bad # 0
             THEN Panic("IndexOutOfBounds", upd(bad - 1), row_headers,
                        col_headers, {"data"})
             ELSE LET d == upd(Len(data)) IN
                  IF TryLockErr("ch") # "none"
                  THEN Panic(TryLockErr("ch"), d, row_headers, col_headers, {"data"})
                  ELSE Done(d, row_headers, Append(col_headers, col_header),
                            table_rows, table_cols + 1, <<>>)

append_empty_col(col_header) ==
    LET d == [k \in 1..Len(data) |-> Append(data[k], "")] IN
    IF TryLockErr("ch") # "none"
    THEN Panic(TryLockErr("ch"), d, row_headers, col_headers, {"data"})
    ELSE Done(d, row_headers, Append(col_headers, col_header),
              table_rows, table_cols + 1, <<>>)

append_col(col_header, vals) ==
    IF Len(vals) # row_count
    THEN Panic("AssertFailed", data, row_headers, col_headers, {"data"})
    ELSE LET bad == FirstBad({k \in 1..Len(data) : k > Len(vals)})
             upd(n) == [k \in 1..Len(data) |->
                           IF k <= n THEN Append(data[k], vals[k]) ELSE data[k]]
         IN  IF bad # 0
             THEN Panic("IndexOutOfBounds", upd(bad - 1), row_headers,
                        col_headers, {"data"})
             ELSE LET d == upd(Len(data)) IN
                  IF TryLockErr("ch") # "none"
                  THEN Panic(TryLockErr("ch"), d, row_headers, col_headers, {"data"})
                  ELSE Done(d, row_headers, Append(col_headers, col_header),
                            table_rows, table_cols + 1, <<>>)

remove_col(col) ==
    LET bad == FirstBad({k \in 1..Len(data) : col >= Len(data[k])})
        upd(n) == [k \in 1..Len(data) |->
                      IF k <= n THEN RemoveAt(data[k], col) ELSE data[k]]
    IN  IF bad # 0
        THEN Panic("IndexOutOfBounds", upd(bad - 1), row_headers,
                   col_headers, {"data"})
        ELSE LET d == upd(Len(data)) IN
             IF TryLockErr("ch") # "none"
             THEN Panic(TryLockErr("ch"), d, row_headers, col_headers, {"data"})
             ELSE IF col >= Len(col_headers)
             THEN Panic("IndexOutOfBounds", d, row_headers, col_headers,
                        {"data", "ch"})
             ELSE Done(d, row_headers, RemoveAt(col_headers, col),
                       table_rows, table_cols - 1, <<>>)

\* ---------------------------------------------------------------- calls
NoOp == [name |-> "none", row |-> 0, col |-> 0, val |-> "", vals |-> <<>>]
Op(name, row, col, val, vals) ==
    [name |-> name, row |-> row, col |-> col, val |-> val, vals |-> vals]
NoCall == [name |-> "none", row |-> 0, col |-> 0, val |-> "", ret |-> <<>>,
           err |-> "none"]
Ended(o, ret, err) ==
    [name |-> o.name, row |-> o.row, col |-> o.col, val |-> o.val, ret |-> ret,
     err |-> err]

\* The mutex a call try_locks first.
FirstLock(name) ==
    IF name \in {"set_row_header_value", "row_header_value"} THEN "rh"
    ELSE IF name \in {"set_col_header_value", "col_header_value"} THEN "ch"
    ELSE "data"

\* The rest of call o, after its first try_lock succeeded.
Exec(o) ==
    CASE o.name = "set_cell_value" -> set_cell_value(o.row, o.col, o.val)
      [] o.name = "cell_value" -> cell_value(o.row, o.col)
      [] o.name = "clear" -> clear
      [] o.name = "set_row_header_value" -> set_row_header_value(o.row, o.val)
      [] o.name = "set_col_header_value" -> set_col_header_value(o.col, o.val)
      [] o.name = "row_header_value" -> row_header_value(o.row)
      [] o.name = "col_header_value" -> col_header_value(o.col)
      [] o.name = "insert_empty_row" -> insert_empty_row(o.row, o.val)
      [] o.name = "insert_row" -> insert_row(o.row, o.val, o.vals)
      [] o.name = "append_empty_row" -> append_empty_row(o.val)
      [] o.name = "append_row" -> append_row(o.val, o.vals)
      [] o.name = "insert_empty_col" -> insert_empty_col(o.col, o.val)
      [] o.name = "insert_col" -> insert_col(o.col, o.val, o.vals)
      [] o.name = "append_empty_col" -> append_empty_col(o.val)
      [] o.name = "append_col" -> append_col(o.val, o.vals)
      [] o.name = "remove_row" -> remove_row(o.row)
      [] o.name = "remove_col" -> remove_col(o.col)

\* `self.<mutex>.try_lock().unwrap()` opening a call of thread t.
TryLockUnwrap(t, o) ==
    LET l == FirstLock(o.name)
        e == TryLockErr(l)
    IN  IF e = "none"
        THEN /\ lock' = [lock EXCEPT ![l] = t]
             /\ pc' = [pc EXCEPT ![t] = "locked"]
             /\ op' = [op EXCEPT ![t] = o]
             /\ last' = [last EXCEPT ![t] = NoCall]
        ELSE /\ lock' = lock
             /\ pc' = [pc EXCEPT ![t] = "dead"]
             /\ op' = op
             /\ last' = [last EXCEPT ![t] = Ended(o, <<>>, e)]

Call(t, o) ==
    /\ pc[t] = "idle"
    /\ TryLockUnwrap(t, o)
    /\ UNCHANGED <<store, poisoned, opts, ui>>

\* The rest of the call in progress of thread t, to the drop of its guard.
Return(t) ==
    /\ pc[t] = "locked"
    /\ LET o == Exec(op[t]) IN
       /\ data' = o.data
       /\ row_headers' = o.rh
       /\ col_headers' = o.ch
       /\ table_rows' = o.rows
       /\ table_cols' = o.cols
       /\ poisoned' = poisoned \cup o.poison
       /\ lock' = [lock EXCEPT ![FirstLock(op[t].name)] = NoOwner]
       /\ pc' = [pc EXCEPT ![t] = IF o.err = "none" THEN "idle" ELSE "dead"]
       /\ last' = [last EXCEPT ![t] = Ended(op[t], o.ret, o.err)]
       /\ op' = [op EXCEPT ![t] = NoOp]
    /\ UNCHANGED <<opts, ui>>

CallSetCellValue(t) ==
    \E row \in RowIdx, col \in ColIdx, val \in Texts :
        Call(t, Op("set_cell_value", row, col, val, <<>>))
CallCellValue(t) ==
    \E row \in RowIdx, col \in ColIdx : Call(t, Op("cell_value", row, col, "", <<>>))
CallClear(t) == Call(t, Op("clear", 0, 0, "", <<>>))
CallSetRowHeaderValue(t) ==
    \E row \in RowIdx, val \in Labels :
        Call(t, Op("set_row_header_value", row, 0, val, <<>>))
CallSetColHeaderValue(t) ==
    \E col \in ColIdx, val \in Labels :
        Call(t, Op("set_col_header_value", 0, col, val, <<>>))
CallRowHeaderValue(t) ==
    \E row \in RowIdx : Call(t, Op("row_header_value", row, 0, "", <<>>))
CallColHeaderValue(t) ==
    \E col \in ColIdx : Call(t, Op("col_header_value", 0, col, "", <<>>))
CallInsertEmptyRow(t) ==
    /\ table_rows < MaxRows
    /\ \E row \in RowIdx, h \in Labels :
           Call(t, Op("insert_empty_row", row, 0, h, <<>>))
CallInsertRow(t) ==
    /\ table_rows < MaxRows
    /\ \E row \in RowIdx, h \in Labels, vals \in SeqsUpTo(Vals, MaxCols) :
           Call(t, Op("insert_row", row, 0, h, vals))
CallAppendEmptyRow(t) ==
    /\ table_rows < MaxRows
    /\ \E h \in Labels : Call(t, Op("append_empty_row", 0, 0, h, <<>>))
CallAppendRow(t) ==
    /\ table_rows < MaxRows
    /\ \E h \in Labels, vals \in SeqsUpTo(Vals, MaxCols) :
           Call(t, Op("append_row", 0, 0, h, vals))
CallInsertEmptyCol(t) ==
    /\ table_cols < MaxCols
    /\ \E col \in ColIdx, h \in Labels :
           Call(t, Op("insert_empty_col", 0, col, h, <<>>))
CallInsertCol(t) ==
    /\ table_cols < MaxCols
    /\ \E col \in ColIdx, h \in Labels, vals \in SeqsUpTo(Vals, MaxRows) :
           Call(t, Op("insert_col", 0, col, h, vals))
CallAppendEmptyCol(t) ==
    /\ table_cols < MaxCols
    /\ \E h \in Labels : Call(t, Op("append_empty_col", 0, 0, h, <<>>))
CallAppendCol(t) ==
    /\ table_cols < MaxCols
    /\ \E h \in Labels, vals \in SeqsUpTo(Vals, MaxRows) :
           Call(t, Op("append_col", 0, 0, h, vals))
CallRemoveRow(t) == \E row \in RowIdx : Call(t, Op("remove_row", row, 0, "", <<>>))
CallRemoveCol(t) == \E col \in ColIdx : Call(t, Op("remove_col", 0, col, "", <<>>))

\* ---------------------------------------------------------------- labels
Letters == <<"A", "B", "C", "D", "E", "F", "G", "H", "I", "J", "K", "L", "M",
             "N", "O", "P", "Q", "R", "S", "T", "U", "V", "W", "X", "Y", "Z">>
\* `(n + 65) as u8 as char` for n in 0..25.
Letter(n) == Letters[n + 1]
\* The label with the decimal fallback taken from t >= 26 on.
ColLabelEarlyDecimal(i) ==
    IF i > 25
    THEN LET t == i \div 26 IN
         IF t >= 26 THEN ToString(i)
         ELSE Letter(t - 1) \o Letter(i - (26 * t))
    ELSE Letter(i)
\* The label set_opts generates for column i.
ColLabel(i) ==
    IF i > 25
    THEN LET t == i \div 26 IN
         IF t > 26 THEN ToString(i)
         ELSE Letter(t - 1) \o Letter(i - (26 * t))
    ELSE Letter(i)
\* The label set_opts generates for row i.
RowLabel(i) == ToString(i + 1)

\* ---------------------------------------------------------------- set_opts
DefaultCell == [row |-> 0, col |-> 0, x |-> 0, y |-> 0, w |-> 0, h |-> 0]
NoReq == [ctx |-> "none", row |-> 0, col |-> 0]
NoCallback == [cb |-> "none", err |-> "none", handled |-> FALSE]
Callback(cb, err, handled) == [cb |-> cb, err |-> err, handled |-> handled]

\* set_opts sizing the grid cols x rows.
set_opts_transposed(rows, cols, edit) ==
    /\ data = Fill(cols, Fill(rows, ""))
    /\ row_headers = [i \in 1..rows |-> RowLabel(i - 1)]
    /\ col_headers = [i \in 1..cols |-> ColLabel(i - 1)]
    /\ table_rows = rows
    /\ table_cols = cols
    /\ opts = [rows |-> rows, cols |-> cols, editable |-> edit]
    /\ cell = DefaultCell
    /\ inp = [exists |-> edit, visible |-> FALSE, focus |-> FALSE, value |-> "",
              x |-> 0, y |-> 0, w |-> 0, h |-> 0]

\* The table after with_opts(TableOpts {rows, cols, editable, ..}).
set_opts(rows, cols, edit) ==
    /\ data = Fill(rows, Fill(cols, ""))
    /\ row_headers = [i \in 1..rows |-> RowLabel(i - 1)]
    /\ col_headers = [i \in 1..cols |-> ColLabel(i - 1)]
    /\ table_rows = rows
    /\ table_cols = cols
    /\ opts = [rows |-> rows, cols |-> cols, editable |-> edit]
    /\ cell = DefaultCell
    /\ inp = [exists |-> edit, visible |-> FALSE, focus |-> FALSE, value |-> "",
              x |-> 0, y |-> 0, w |-> 0, h |-> 0]

\* No thread is inside a call, no callback has run, no mutex is held.
Start ==
    /\ lock = [l \in Locks |-> NoOwner]
    /\ poisoned = {}
    /\ pc = [t \in Workers |-> "idle"]
    /\ op = [t \in Workers |-> NoOp]
    /\ last = [t \in Workers |-> NoCall]
    /\ calls = [t \in Workers |-> 0]
    /\ uipc = "idle"
    /\ req = NoReq
    /\ drawn = <<>>
    /\ sel = <<>>
    /\ redraw = FALSE
    /\ uilast = NoCallback

Init ==
    /\ \E rows \in 0..MaxRows, cols \in 0..MaxCols, edit \in BOOLEAN :
           set_opts(rows, cols, edit)
    /\ Start

\* ---------------------------------------------------------------- draw_cell
\* The rectangle the toolkit hands to draw_cell for a data cell.
CellRect(row, col) == [x |-> col + 1, y |-> row + 1, w |-> 1, h |-> 1]
\* TableRow::is_selected(row, col).
is_selected(row, col) == sel = <<row, col>>
\* CellData::select.
select(row, col, r) ==
    [row |-> row, col |-> col, x |-> r.x, y |-> r.y, w |-> r.w, h |-> r.h]

\* The toolkit asks for one region to be painted; the indices are within the
\* dimensions it holds at that moment.
PaintRequest ==
    /\ uipc = "idle"
    /\ \E ctx \in {"StartPage", "ColHeader", "RowHeader", "Cell", "EndPage"} :
       \E row \in 0..(table_rows - 1) \cup {0}, col \in 0..(table_cols - 1) \cup {0} :
           /\ ctx \in {"ColHeader", "Cell"} => col < table_cols
           /\ ctx \in {"RowHeader", "Cell"} => row < table_rows
           /\ ctx \in {"StartPage", "EndPage", "ColHeader"} => row = 0
           /\ ctx \in {"StartPage", "EndPage", "RowHeader"} => col = 0
           /\ req' = [ctx |-> ctx, row |-> row, col |-> col]
    /\ uipc' = "req"
    /\ drawn' = <<>>
    /\ redraw' = FALSE
    /\ uilast' = NoCallback
    /\ UNCHANGED <<store, sync, callers, opts, cell, sel, inp>>

\* draw_cell taking the grid with lock() instead of try_lock(): it waits.
DrawCellWait ==
    /\ uipc' = "waiting"
    /\ UNCHANGED <<store, sync, callers, opts, req, drawn, cell, sel, inp, redraw,
                   uilast>>

\* `if let Ok(data) = data.try_lock()` failed: the closure returns.
DrawCellSkip ==
    /\ uipc' = "idle"
    /\ req' = NoReq
    /\ uilast' = Callback("draw_cell", "none", FALSE)
    /\ UNCHANGED <<store, sync, callers, opts, drawn, cell, sel, inp, redraw>>

\* The closure panics with the guards in `held` alive.
DrawCellPanic(e, held, c) ==
    /\ uipc' = "idle"
    /\ req' = NoReq
    /\ poisoned' = poisoned \cup held
    /\ cell' = c
    /\ uilast' = Callback("draw_cell", e, FALSE)
    /\ UNCHANGED <<store, lock, callers, opts, drawn, sel, inp, redraw>>

\* The closure reaches draw_header / draw_data with text txt, all guards held.
DrawCellDraw(txt, c) ==
    /\ uipc' = "drawing"
    /\ lock' = [l \in Locks |-> UI]
    /\ drawn' = txt
    /\ cell' = c
    /\ UNCHANGED <<store, poisoned, callers, opts, req, sel, inp, redraw, uilast>>

\* The draw_cell closure, from its entry to the first drawing primitive.
DrawCell ==
    /\ uipc = "req"
    /\ IF TryLockErr("data") # "none" THEN DrawCellSkip
       ELSE IF TryLockErr("rh") # "none"
       THEN DrawCellPanic(TryLockErr("rh"), {"data"}, cell)
       ELSE IF TryLockErr("ch") # "none"
       THEN DrawCellPanic(TryLockErr("ch"), {"data", "rh"}, cell)
       ELSE CASE req.ctx = "ColHeader" ->
                   IF req.col >= Len(col_headers)
                   THEN DrawCellPanic("IndexOutOfBounds", Locks, cell)
                   ELSE DrawCellDraw(<<col_headers[req.col + 1]>>, cell)
              [] req.ctx = "RowHeader" ->
                   IF req.row >= Len(row_headers)
                   THEN DrawCellPanic("IndexOutOfBounds", Locks, cell)
                   ELSE DrawCellDraw(<<row_headers[req.row + 1]>>, cell)
              [] req.ctx = "Cell" ->
                   LET c == IF is_selected(req.row, req.col)
                            THEN select(req.row, req.col, CellRect(req.row, req.col))
                            ELSE cell
                   IN  IF ~InGrid(data, req.row, req.col)
                       THEN DrawCellPanic("IndexOutOfBounds", Locks, c)
                       ELSE DrawCellDraw(<<data[req.row + 1][req.col + 1]>>, c)
              [] OTHER -> DrawCellDraw(<<>>, cell)

\* The closure returns after drawing: its three guards are dropped.
DrawCellReturn ==
    /\ uipc = "drawing"
    /\ uipc' = "idle"
    /\ req' = NoReq
    /\ lock' = [l \in Locks |-> NoOwner]
    /\ drawn' = <<>>
    /\ uilast' = Callback("draw_cell", "none", TRUE)
    /\ UNCHANGED <<store, poisoned, callers, opts, cell, sel, inp, redraw>>

\* ---------------------------------------------------------------- editing
\* The user presses on a cell: the toolkit makes it the selection; table.handle
\* leaves the event unhandled (`_ => false`).
Select ==
    /\ uipc = "idle"
    /\ \E row \in 0..(table_rows - 1), col \in 0..(table_cols - 1) :
           sel' = <<row, col>>
    /\ uilast' = Callback("push", "none", FALSE)
    /\ UNCHANGED <<store, sync, callers, opts, uipc, req, drawn, cell, inp, redraw>>

\* The table.handle closure installed although opts.editable is false.
ReleasedInstalled ==
    /\ uipc = "idle"
    /\ inp' = [inp EXCEPT !.visible = TRUE, !.focus = TRUE]
    /\ uilast' = Callback("released", "none", TRUE)
    /\ UNCHANGED <<store, sync, callers, opts, uipc, req, drawn, cell, sel, redraw>>

\* A pointer release on a table that has no handler (opts.editable is false):
\* the toolkit's own handling, the event is not consumed by SmartTable.
ReleasedUnhandled ==
    /\ uipc = "idle"
    /\ uilast' = Callback("released", "none", FALSE)
    /\ UNCHANGED <<store, sync, callers, opts, uipc, req, drawn, cell, sel, inp, redraw>>

\* table.handle, Event::Released.
ReleasedHandler ==
    /\ uipc = "idle"
    /\ IF TryLockErr("data") # "none"
       THEN /\ uilast' = Callback("released", "none", FALSE)
            /\ UNCHANGED <<inp, poisoned>>
       ELSE LET sized == [inp EXCEPT !.x = cell.x, !.y = cell.y, !.w = cell.w,
                                     !.h = cell.h]
            IN  IF ~InGrid(data, cell.row, cell.col)
                THEN /\ inp' = sized
                     /\ poisoned' = poisoned \cup {"data"}
                     /\ uilast' = Callback("released", "IndexOutOfBounds", FALSE)
                ELSE /\ inp' = [sized EXCEPT !.value = data[cell.row + 1][cell.col + 1],
                                             !.visible = TRUE, !.focus = TRUE]
                     /\ poisoned' = poisoned
                     /\ uilast' = Callback("released", "none", TRUE)
    /\ UNCHANGED <<store, lock, callers, opts, uipc, req, drawn, cell, sel, redraw>>

\* The user releases the pointer over the table.
Released == IF editable THEN ReleasedHandler ELSE ReleasedUnhandled

\* The user types into the focused overlay; inp.handle leaves the key events
\* unhandled (`_ => false`).
TypeText ==
    /\ uipc = "idle"
    /\ inp.exists /\ inp.visible /\ inp.focus
    /\ \E v \in Texts : inp' = [inp EXCEPT !.value = v]
    /\ uilast' = Callback("key", "none", FALSE)
    /\ UNCHANGED <<store, sync, callers, opts, uipc, req, drawn, cell, sel, redraw>>

\* The commit writing after `i.set_value("")` instead of before it.
CommitWriteCleared(d, c, v) == [d EXCEPT ![c.row + 1][c.col + 1] = ""]

\* The store after `data.try_lock().unwrap()[cell.row][cell.col] = i.value()`.
CommitWrite(d, c, v) == [d EXCEPT ![c.row + 1][c.col + 1] = v]

\* inp.set_callback, CallbackTrigger::EnterKey.
Commit ==
    /\ uipc = "idle"
    /\ inp.exists /\ inp.visible /\ inp.focus
    /\ IF TryLockErr("data") # "none"
       THEN /\ uilast' = Callback("commit", TryLockErr("data"), FALSE)
            /\ UNCHANGED <<data, poisoned, inp, redraw>>
       ELSE IF ~InGrid(data, cell.row, cell.col)
       THEN /\ uilast' = Callback("commit", "IndexOutOfBounds", FALSE)
            /\ poisoned' = poisoned \cup {"data"}
            /\ UNCHANGED <<data, inp, redraw>>
       ELSE /\ data' = CommitWrite(data, cell, inp.value)
            /\ inp' = [inp EXCEPT !.value = "", !.visible = FALSE, !.focus = FALSE]
            /\ redraw' = TRUE
            /\ uilast' = Callback("commit", "none", TRUE)
            /\ poisoned' = poisoned
    /\ UNCHANGED <<row_headers, col_headers, table_rows, table_cols, lock, callers,
                   opts, uipc, req, drawn, cell, sel>>

\* The overlay after the key handler's `i.hide()`.
Hidden(i) == [i EXCEPT !.visible = FALSE, !.focus = FALSE]

\* An Escape handler that keeps the typed text in the grid before hiding.
CancelCommits ==
    /\ uipc = "idle"
    /\ inp.exists /\ inp.visible /\ inp.focus
    /\ inp' = Hidden(inp)
    /\ data' = IF InGrid(data, cell.row, cell.col)
               THEN CommitWrite(data, cell, inp.value) ELSE data
    /\ uilast' = Callback("cancel", "none", TRUE)
    /\ UNCHANGED <<row_headers, col_headers, table_rows, table_cols, sync, callers,
                   opts, uipc, req, drawn, cell, sel, redraw>>

\* inp.handle, Event::KeyUp with Key::Escape.
Cancel ==
    /\ uipc = "idle"
    /\ inp.exists /\ inp.visible /\ inp.focus
    /\ inp' = Hidden(inp)
    /\ uilast' = Callback("cancel", "none", TRUE)
    /\ UNCHANGED <<store, sync, callers, opts, uipc, req, drawn, cell, sel, redraw>>

\* ---------------------------------------------------------------- specifications
Main == "w1"

StartCall(t) ==
    \/ CallSetCellValue(t)
    \/ CallCellValue(t)
    \/ CallClear(t)
    \/ CallSetRowHeaderValue(t)
    \/ CallSetColHeaderValue(t)
    \/ CallRowHeaderValue(t)
    \/ CallColHeaderValue(t)
    \/ CallInsertEmptyRow(t)
    \/ CallInsertRow(t)
    \/ CallAppendEmptyRow(t)
    \/ CallAppendRow(t)
    \/ CallInsertEmptyCol(t)
    \/ CallInsertCol(t)
    \/ CallAppendEmptyCol(t)
    \/ CallAppendCol(t)
    \/ CallRemoveRow(t)
    \/ CallRemoveCol(t)

\* A table built with the default options (editable: false), and one built with
\* editable: true.
InitReadOnly == Init /\ editable = FALSE
InitEditable == Init /\ editable = TRUE

\* One thread drives the whole API (the application before app.run()).
Next ==
    /\ StartCall(Main) \/ Return(Main)
    /\ UNCHANGED calls
Spec == InitReadOnly /\ [][Next]_vars

\* A call begun by a worker while the UI thread runs.
Begin(t) ==
    /\ calls[t] < MaxCalls
    /\ calls' = [calls EXCEPT ![t] = @ + 1]
End(t) == Return(t) /\ UNCHANGED calls
Paint ==
    /\ PaintRequest \/ DrawCell \/ DrawCellReturn
    /\ UNCHANGED calls

\* Worker threads holding clones of the table call the API while the UI thread
\* paints (tests/thread.rs).
NextThreads ==
    \/ \E t \in Workers : Begin(t) /\ StartCall(t)
    \/ \E t \in Workers : End(t)
    \/ Paint
SpecThreads == InitReadOnly /\ [][NextThreads]_vars

\* The UI thread paints and edits while one worker changes the grid.
NextEdit ==
    \/ Paint
    \/ (Select \/ Released \/ TypeText \/ Commit \/ Cancel) /\ UNCHANGED calls
    \/ /\ Begin(Main)
       /\ CallSetCellValue(Main) \/ CallRemoveRow(Main) \/ CallRemoveCol(Main)
    \/ End(Main)
SpecEdit == InitEditable /\ [][NextEdit]_vars

\* The UI thread paints and delivers pointer events to a table that is not
\* editable, while one worker changes the grid.
NextView ==
    \/ Paint
    \/ (Select \/ Released) /\ UNCHANGED calls
    \/ /\ Begin(Main)
       /\ CallSetCellValue(Main) \/ CallRemoveRow(Main)
    \/ End(Main)
SpecView == InitReadOnly /\ [][NextView]_vars

\* A table of MaxLabelCols columns and no row, whose generated column labels are
\* read back one by one.
InitLabels == set_opts(0, MaxLabelCols, FALSE) /\ Start
ReadLabel ==
    \E col \in 0..(MaxLabelCols - 1) :
        Call(Main, Op("col_header_value", 0, col, "", <<>>))
NextLabels ==
    /\ ReadLabel \/ Return(Main)
    /\ UNCHANGED calls
SpecLabels == InitLabels /\ [][NextLabels]_vars

\* ---------------------------------------------------------------- properties
RowOps == {"insert_empty_row", "insert_row", "append_empty_row", "append_row",
           "remove_row"}
ColOps == {"insert_empty_col", "insert_col", "append_empty_col", "append_col",
           "remove_col"}
StructuralOps == RowOps \cup ColOps
\* Every call made so far has returned.
NoFailure == \A t \in Workers : pc[t] # "dead"
\* The grid is rows() x cols().
Shape ==
    /\ Len(data) = row_count
    /\ \A k \in 1..Len(data) : Len(data[k]) = column_count
\* Thread t takes the step that ends its call.
Ends(t) == pc[t] = "locked" /\ pc'[t] # "locked"

\* C1: right after set_cell_value(row, col, v) on a cell inside the current
\* bounds, cell_value(row, col) returns v: a set_cell_value inside the bounds
\* returns, and in the state it leaves the grid lock is free and cell_value of
\* the same cell yields v.
RoundTrip ==
    \A t \in Workers :
        (pc[t] # "locked" /\ last[t].name = "set_cell_value") =>
            IF last[t].err = "none"
            THEN /\ TryLockErr("data") = "none"
                 /\ cell_value(last[t].row, last[t].col).err = "none"
                 /\ cell_value(last[t].row, last[t].col).ret = <<last[t].val>>
            ELSE ~(last[t].row < row_count /\ last[t].col < column_count)
\* A set_cell_value("a") on the second row has returned.
RoundTripWitness ==
    \E t \in Workers :
        /\ pc[t] = "idle"
        /\ last[t].name = "set_cell_value" /\ last[t].err = "none"
        /\ last[t].row = 1 /\ last[t].val = "a"

\* C2: as long as every call has succeeded, after a row or column insert,
\* append or remove every row is column_count() long and there are row_count()
\* rows; a column insert, append or remove leaves row_count() as it was.
ShapeInvariant ==
    /\ [](\A t \in Workers :
              (NoFailure /\ pc[t] = "idle" /\ last[t].name \in StructuralOps) => Shape)
    /\ [][\A t \in Workers :
              (Ends(t) /\ op[t].name \in ColOps /\ pc'[t] = "idle") =>
                  (row_count' = row_count /\ Len(data') = Len(data))]_vars
\* A row was appended to a grid that has a column, and nothing has failed.
ShapeWitness ==
    \E t \in Workers :
        /\ NoFailure /\ pc[t] = "idle"
        /\ last[t].name = "append_empty_row"
        /\ row_count = 2 /\ column_count = 1

\* C3: whenever no row or column insert, append or remove is in progress, the
\* row-header list is row_count() long and the column-header list is
\* column_count() long, whichever thread made the calls and however they ended.
HeaderLengths ==
    (\A t \in Workers : pc[t] = "locked" => op[t].name \notin StructuralOps) =>
        (Len(row_headers) = row_count /\ Len(col_headers) = column_count)
\* Both workers have changed the structure, one a row and one a column.
HeaderLengthsWitness ==
    /\ last["w1"].name \in ColOps /\ last["w1"].err = "none"
    /\ last["w2"].name \in RowOps /\ last["w2"].err = "none"
    /\ pc["w1"] = "idle" /\ pc["w2"] = "idle"

\* The UI thread has run no callback yet.
UiQuiet == uipc = "idle" /\ uilast = NoCallback
MutatingOps == StructuralOps \cup {"set_cell_value", "clear",
                                   "set_row_header_value", "set_col_header_value"}

\* C4: two set_cell_value calls on different cells of the grid, made by two
\* threads while nothing else runs, both return and both cells hold the value
\* written to them.
NoLostUpdate ==
    \A t, u \in Workers :
        (/\ t # u /\ UiQuiet
         /\ pc[t] # "locked" /\ pc[u] # "locked"
         /\ calls[t] = 1 /\ calls[u] = 1
         /\ last[t].name = "set_cell_value" /\ last[u].name = "set_cell_value"
         /\ <<last[t].row, last[t].col>> # <<last[u].row, last[u].col>>
         /\ InGrid(data, last[t].row, last[t].col)
         /\ InGrid(data, last[u].row, last[u].col)) =>
            /\ last[t].err = "none" /\ last[u].err = "none"
            /\ data[last[t].row + 1][last[t].col + 1] = last[t].val
            /\ data[last[u].row + 1][last[u].col + 1] = last[u].val

\* C5: a mutating call made by a worker while the UI thread's paint holds the
\* grid lock (no other caller being active) does not fail for the lock being
\* held.
WritersBlock ==
    \A t \in Workers :
        (/\ \A u \in Workers \ {t} : calls[u] = 0
         /\ last[t].name \in MutatingOps) =>
            last[t].err # "WouldBlock"

\* C6: the paint callback never waits for a lock, and a paint request that
\* finds the grid lock held by a writer returns having drawn nothing, taken no
\* lock and changed nothing.
PaintNeverBlocks ==
    /\ [](uipc # "waiting")
    /\ [][(uipc = "req" /\ lock["data"] \in Workers /\ uipc' # "req") =>
              /\ uipc' = "idle"
              /\ drawn' = <<>>
              /\ uilast' = Callback("draw_cell", "none", FALSE)
              /\ UNCHANGED <<store, sync, cell>>]_vars
\* A paint request was skipped while a worker is inside set_cell_value.
PaintNeverBlocksWitness ==
    /\ uilast = Callback("draw_cell", "none", FALSE)
    /\ uipc = "idle"
    /\ \E t \in Workers :
           pc[t] = "locked" /\ op[t].name = "set_cell_value" /\ lock["data"] = t

\* The overlay is open.
Editing == inp.exists /\ inp.visible
\* What a commit that writes leaves behind.
Committed ==
    /\ data' = [data EXCEPT ![cell.row + 1][cell.col + 1] = inp.value]
    /\ inp'.value = "" /\ ~inp'.visible
    /\ redraw'
    /\ uilast'.err = "none"

\* C7: in state Editing every commit writes the overlay's text to the grid at
\* the recorded (row, col), clears and hides the overlay and requests a redraw.
CommitAlwaysWrites == [][(Editing /\ Commit) => Committed]_vars
\* The commit on its normal path: in state Editing a commit that finds the grid
\* lock free and the recorded (row, col) inside the grid writes the overlay's
\* text to that cell, clears and hides the overlay and requests a redraw.
CommitTransition ==
    [][(/\ Editing /\ Commit
        /\ TryLockErr("data") = "none"
        /\ InGrid(data, cell.row, cell.col)) => Committed]_vars
\* Cell (1, 0) was selected, "a" was typed and committed into it.
CommitWitness ==
    /\ uilast = Callback("commit", "none", TRUE)
    /\ cell.row = 1 /\ sel = <<1, 0>>
    /\ InGrid(data, 1, 0) /\ data[2][1] = "a" /\ data[1][1] = ""
    /\ ~inp.visible /\ redraw

\* C8: in state Editing the Escape key hides the overlay and leaves the grid,
\* the header lists and both dimensions as they were.
CancelTransition ==
    [][(Editing /\ Cancel) => (~inp'.visible /\ store' = store)]_vars
\* Text was typed into the overlay and the edit was cancelled.
CancelWitness ==
    /\ uilast = Callback("cancel", "none", TRUE)
    /\ ~inp.visible /\ inp.value = "a"
    /\ \A k \in 1..Len(data) : \A j \in 1..Len(data[k]) : data[k][j] = ""

\* C9: a commit whose recorded (row, col) is no longer in the grid is dropped:
\* nothing is written and nothing fails.
StaleCommitDropped ==
    [][(/\ Editing /\ Commit
        /\ TryLockErr("data") = "none"
        /\ ~InGrid(data, cell.row, cell.col)) =>
           (store' = store /\ uilast'.err = "none" /\ poisoned' = poisoned)]_vars

\* The call in progress hands in an array of the wrong length.
Mismatch(o) ==
    \/ o.name \in {"insert_row", "append_row"} /\ Len(o.vals) # column_count
    \/ o.name \in {"insert_col", "append_col"} /\ Len(o.vals) # row_count

\* C10: insert_row / append_row with vals.len() # column_count() and insert_col
\* / append_col with vals.len() # row_count() fail, and leave the grid, both
\* header lists and both counts as they were.
MismatchRejected ==
    [][\A t \in Workers :
           (Ends(t) /\ Mismatch(op[t])) =>
               (pc'[t] = "dead" /\ last'[t].err # "none" /\ store' = store)]_vars
\* An insert_row with too few values has failed on a grid that has a row.
MismatchWitness ==
    \E t \in Workers :
        /\ pc[t] = "dead"
        /\ last[t].name = "insert_row" /\ last[t].err = "AssertFailed"
        /\ row_count = 1 /\ column_count = 1

\* The call o names a row or a column beyond row_count() / column_count().
OutOfRange(o) ==
    CASE o.name \in {"cell_value", "set_cell_value"} ->
             o.row >= row_count \/ o.col >= column_count
      [] o.name = "remove_row" -> o.row >= row_count
      [] o.name = "remove_col" -> o.col >= column_count
      [] OTHER -> FALSE

\* C11: cell_value, set_cell_value, remove_row and remove_col with an index
\* beyond the current dimensions fail with an index-out-of-bounds error and
\* leave the grid, both header lists and both counts as they were.
OutOfRangeFails ==
    [][\A t \in Workers :
           (Ends(t) /\ OutOfRange(op[t])) =>
               (last'[t].err = "IndexOutOfBounds" /\ store' = store)]_vars
\* remove_col(1) has failed on a grid of two rows and one column.
OutOfRangeWitness ==
    \E t \in Workers :
        /\ last[t].name = "remove_col" /\ last[t].col = 1
        /\ last[t].err = "IndexOutOfBounds"
        /\ row_count = 2 /\ column_count = 1

\* C12: a paint request that finds a header list's lock held by another thread,
\* and an overlay commit that finds the grid lock held by another thread, end
\* without a failure.
ContentionIsNoOp ==
    uilast.cb \in {"draw_cell", "commit"} => uilast.err # "WouldBlock"

\* C13: a paint request whose row or column does not exist in the header list
\* or in the grid does not fail.
PaintBoundsGuarded ==
    uilast.cb = "draw_cell" => uilast.err # "IndexOutOfBounds"

\* A step of the UI thread: a paint callback or a pointer event.
UiEvent == Paint \/ Select \/ Released

\* C14: on a table configured with editable == false no overlay input exists in
\* any reachable state, every pointer release is left unhandled and changes
\* nothing of the overlay, and no UI event changes the grid.
EditingDisabled ==
    /\ [](~editable => (~inp.exists /\ ~inp.visible))
    /\ [][(~editable /\ Released) => (~uilast'.handled /\ inp' = inp)]_vars
    /\ [][(~editable /\ UiEvent) => store' = store]_vars
\* The pointer was released over the selected cell (1, 0) of a table that is
\* not editable.
EditingDisabledWitness ==
    /\ ~editable
    /\ sel = <<1, 0>>
    /\ uilast = Callback("released", "none", FALSE)

\* What a pointer release that opens the overlay leaves behind.
Opened ==
    /\ InGrid(data, cell.row, cell.col)
    /\ inp' = [inp EXCEPT !.x = cell.x, !.y = cell.y, !.w = cell.w, !.h = cell.h,
                          !.value = data[cell.row + 1][cell.col + 1],
                          !.visible = TRUE, !.focus = TRUE]
    /\ uilast'.err = "none" /\ uilast'.handled
    /\ store' = store

\* C15: with editing enabled, a pointer release in state Idle, after a paint has
\* recorded the selected cell and with the grid lock free, resizes the overlay
\* to the recorded rectangle, sets its text to the grid's value at the recorded
\* (row, col), shows and focuses it, and leaves the grid unchanged.
OpenTransition ==
    [][(/\ editable /\ ~Editing /\ Released
        /\ TryLockErr("data") = "none"
        /\ cell # DefaultCell) => Opened]_vars

\* The label the rule of the claim gives column i.
ClaimedLabel(i) ==
    IF i <= 25 THEN Letter(i)
    ELSE IF i < 702
    THEN Letter((i \div 26) - 1) \o Letter(i - 26 * (i \div 26))
    ELSE ToString(i)
\* The labels the claim spells out.
LabelExamples ==
    (0 :> "A") @@ (25 :> "Z") @@ (26 :> "AA") @@ (27 :> "AB") @@ (51 :> "AZ")
    @@ (52 :> "BA")

\* C16: the label generated for column i is the letter 'A'+i for i in 0..25,
\* the letters 'A'+(i/26 - 1) and 'A'+(i - 26*(i/26)) for 26 <= i < 702, and
\* the decimal text of i from 702 on; 0 is A, 25 Z, 26 AA, 27 AB, 51 AZ, 52 BA.
DefaultColumnLabels ==
    \A t \in Workers :
        (pc[t] = "idle" /\ last[t].name = "col_header_value"
         /\ last[t].err = "none") =>
            /\ last[t].ret = <<ClaimedLabel(last[t].col)>>
            /\ last[t].col \in DOMAIN LabelExamples =>
                   last[t].ret = <<LabelExamples[last[t].col]>>
\* The label of column 701, the last one of two letters, was read.
DefaultColumnLabelsWitness ==
    \E t \in Workers :
        /\ pc[t] = "idle" /\ last[t].name = "col_header_value"
        /\ last[t].col = 701 /\ last[t].ret = <<"ZZ">>

\* Nothing has been called on the table since with_opts.
Fresh == UiQuiet /\ \A t \in Workers : pc[t] = "idle" /\ last[t] = NoCall

\* C17: a table freshly configured with TableOpts {rows, cols} has
\* row_count() == rows and column_count() == cols, and cell_value of every cell
\* inside these bounds returns the empty text.
Construction ==
    Fresh =>
        /\ row_count = opts.rows /\ column_count = opts.cols
        /\ \A r \in 0..(opts.rows - 1), c \in 0..(opts.cols - 1) :
               /\ cell_value(r, c).err = "none"
               /\ cell_value(r, c).ret = <<"">>
\* A fresh table of two rows and one column.
ConstructionWitness ==
    Fresh /\ opts.rows = 2 /\ opts.cols = 1 /\ InGrid(data, 1, 0)

\* C18: clear() returns and leaves every cell the empty text, with the shape of
\* the grid, row_count(), column_count() and both header lists as they were.
ClearKeepsShape ==
    [][\A t \in Workers :
           (Ends(t) /\ op[t].name = "clear") =>
               /\ pc'[t] = "idle"
               /\ Len(data') = Len(data)
               /\ \A k \in 1..Len(data) :
                      /\ Len(data'[k]) = Len(data[k])
                      /\ \A j \in 1..Len(data[k]) : data'[k][j] = ""
               /\ row_count' = row_count /\ column_count' = column_count
               /\ row_headers' = row_headers /\ col_headers' = col_headers]_vars
\* clear() has returned on a grid of two rows and one column whose first row
\* header had been renamed.
ClearWitness ==
    \E t \in Workers :
        /\ pc[t] = "idle" /\ last[t].name = "clear" /\ last[t].err = "none"
        /\ row_count = 2 /\ column_count = 1
        /\ row_headers[1] = "h"
        /\ data = <<<<"">>, <<"">>>>

\* C19: while the paint callback is inside draw_header or draw_data the UI
\* thread holds neither the grid lock nor a header-list lock.
NoLockWhileDrawing ==
    (uipc = "drawing" /\ req.ctx \in {"ColHeader", "RowHeader", "Cell"}) =>
        \A l \in Locks : lock[l] # UI

\* C20: as long as no data cell has been painted as selected (the selection
\* record is the default one), no pointer release has shown the overlay and no
\* commit has written to the grid.
DefaultRecordUnused ==
    cell = DefaultCell =>
        /\ ~inp.visible
        /\ uilast # Callback("commit", "none", TRUE)

\* C21: after insert_row / insert_empty_row (row, header, ..) has returned the
\* row-header list is the former one with header inserted at index row, and
\* after insert_col / insert_empty_col (col, header, ..) the column-header list
\* is the former one with header inserted at index col: the new label sits at
\* the index of the new row or column and every other label stays with its own.
HeadersAligned ==
    [][\A t \in Workers :
           (Ends(t) /\ pc'[t] = "idle") =>
               /\ op[t].name \in {"insert_row", "insert_empty_row"} =>
                      /\ op[t].row <= Len(row_headers)
                      /\ row_headers' = InsertAt(row_headers, op[t].row, op[t].val)
               /\ op[t].name \in {"insert_col", "insert_empty_col"} =>
                      /\ op[t].col <= Len(col_headers)
                      /\ col_headers' = InsertAt(col_headers, op[t].col, op[t].val)]_vars

\* The call that ended as l was refused by the code for its arguments.
Rejected(l) == l.err \in {"IndexOutOfBounds", "AssertFailed"}

\* C22: after a call of one thread has failed for an index out of range or a
\* mismatched length, with no UI callback involved, a clear() of another thread
\* (valid on any table) does not fail for the state the failed call left the
\* locks in.
FailuresAreLocal ==
    \A t, u \in Workers :
        (t # u /\ UiQuiet /\ Rejected(last[t]) /\ last[u].name = "clear") =>
            last[u].err # "Poisoned"

\* C23: a commit that writes, on an overlay opened from a painted selection,
\* writes the overlay's text to the cell the overlay was opened on (the one
\* whose rectangle it was given) and changes no other cell.
CommitTargetStable ==
    [][(Editing /\ Commit /\ uilast'.err = "none" /\ inp.w > 0) =>
           /\ InGrid(data, inp.y - 1, inp.x - 1)
           /\ data' = [data EXCEPT ![inp.y][inp.x] = inp.value]]_vars

\* Rows, row labels and rows() agree, and so do every row's length, the column
\* labels and cols().
Whole ==
    /\ Len(data) = table_rows /\ Len(row_headers) = table_rows
    /\ Len(col_headers) = table_cols
    /\ \A k \in 1..Len(data) : Len(data[k]) = table_cols

\* C24: whenever the paint callback can take the grid lock, the grid, the
\* header lists and the toolkit's row and column counts agree, whatever row or
\* column calls the other threads have made or have in progress.
PainterSeesWhole ==
    (uipc = "req" /\ TryLockErr("data") = "none") => Whole
\* A paint request finds the grid lock free after a worker has inserted,
\* appended or removed a row.
PainterSeesWholeWitness ==
    /\ uipc = "req" /\ TryLockErr("data") = "none"
    /\ \E t \in Workers : last[t].name \in RowOps /\ last[t].err = "none"

====
